---- MODULE Spec2Model ----
(***************************************************************************)
(* A model of DatasetMLAgent (src/src/agents/dataset_ml_agent.py): the     *)
(* loader, the preprocessor and the analyze pipeline, one action per       *)
(* statement group of analyze.  pandas, numpy and scikit-learn are outside *)
(* the repository: what they return for a given input (which fits raise,   *)
(* the held-out residuals of a model, its feature importances, the anomaly *)
(* scores, the shuffle of the folds, the order a sort leaves ties in) is   *)
(* the record sk, drawn with the dataset before the call starts.           *)
(*                                                                         *)
(* Numbers are fixed point: a residual, an importance and a score are      *)
(* integers, an RMSE or MAE is an integer count of 1/Prec, a quantile an   *)
(* integer count of 1/QScale.                                              *)
(***************************************************************************)
EXTENDS Integers, Sequences, FiniteSets, TLC

\* ------------------------------------------------------------------ bounds
MaxRows == 6
MaxCols == 3
MaxFeat == 6
MaxErr == 1
MaxWiggle == 1
MaxImp == 2
MaxScore == 2
MaxShuffle == 1
MaxGroup == 5
Prec == 10
NRequests == 2
MaxRng == 1

\* -------------------------------------------------------- program constants
N_SPLITS == 5
TOP_FEATURES == 5
TOP_OUTLIERS == 5
MIN_GROUP == 5
SUB_SPLITS == 3
\* np.quantile(best_residuals, 0.025) and 0.975, as counts of 1/QScale
QScale == 40
QLow == 1
QHigh == 39

\* ------------------------------------------------------------ text, as str
\* A str is a tuple of one-character strings, so that lower() and the
\* substring test `in` are computed and not assumed.
UpperChars == <<"A", "B", "C", "D", "E", "F", "G", "H", "I", "J", "K", "L", "M",
                "N", "O", "P", "Q", "R", "S", "T", "U", "V", "W", "X", "Y", "Z">>
LowerChars == <<"a", "b", "c", "d", "e", "f", "g", "h", "i", "j", "k", "l", "m",
                "n", "o", "p", "q", "r", "s", "t", "u", "v", "w", "x", "y", "z">>

LowerChar(c) ==
    IF \E i \in 1..Len(UpperChars) : UpperChars[i] = c
    THEN LowerChars[CHOOSE i \in 1..Len(UpperChars) : UpperChars[i] = c]
    ELSE c

\* str.lower()
Lower(s) == [i \in 1..Len(s) |-> LowerChar(s[i])]

\* sub in s
Contains(sub, s) ==
    \E i \in 1..(Len(s) - Len(sub) + 1) : SubSeq(s, i, i + Len(sub) - 1) = sub

EFFORT == <<"e", "f", "f", "o", "r", "t">>

\* os.path.splitext(path)[1]: from the last dot of the name, a leading dot
\* excepted; empty when there is none.
SplitExt(path) ==
    LET dots == {i \in 2..Len(path) : path[i] = "."}
    IN  IF dots = {} THEN <<>>
        ELSE SubSeq(path, CHOOSE i \in dots : \A j \in dots : j <= i, Len(path))

EXT_CSV == <<".", "c", "s", "v">>
EXT_ARFF == <<".", "a", "r", "f", "f">>

\* ------------------------------------------------------------------ values
\* Python's None and a present value: the empty tuple and a one-tuple.
None == <<>>
Some(v) == <<v>>
IsNone(o) == Len(o) = 0
Get(o) == o[1]

\* not x, for x an Optional[str]
Falsy(o) == IsNone(o) \/ Len(Get(o)) = 0

\* A cell of a table: a number, a text (its number orders it), or missing.
Num(v) == <<"num", v>>
Txt(v) == <<"str", v>>
NaN == <<"nan", 0>>
IsNum(c) == c[1] = "num"
IsTxt(c) == c[1] = "str"
IsNaN(c) == c[1] = "nan"

\* --------------------------------------------------------------- sequences
RECURSIVE SumSeq(_)
SumSeq(s) == IF Len(s) = 0 THEN 0 ELSE Head(s) + SumSeq(Tail(s))

Abs(x) == IF x < 0 THEN 0 - x ELSE x
Min2(a, b) == IF a <= b THEN a ELSE b
Range(s) == {s[i] : i \in 1..Len(s)}

\* The increasing enumeration of a set of integers.
RECURSIVE SetToSeq(_)
SetToSeq(S) ==
    IF S = {} THEN <<>>
    ELSE LET m == CHOOSE x \in S : \A z \in S : x <= z
         IN  <<m>> \o SetToSeq(S \ {m})

Reverse(s) == [i \in 1..Len(s) |-> s[Len(s) + 1 - i]]

\* math.sqrt, rounded down to the model's resolution
ISqrt(x) == CHOOSE r \in 0..x : r * r <= x /\ (r + 1) * (r + 1) > x

\* ------------------------------------------------------------------ tables
\* A DataFrame: the column names in table order and, per column, its cells
\* in row order.
Table(cols, data) == [cols |-> cols, data |-> data]
NCols(t) == Len(t.cols)
NRows(t) == IF Len(t.data) = 0 THEN 0 ELSE Len(t.data[1])
\* DataFrame.empty: some axis has length 0
IsEmpty(t) == NCols(t) = 0 \/ NRows(t) = 0
ColIndex(t, name) == CHOOSE i \in 1..NCols(t) : t.cols[i] = name
HasCol(t, name) == \E i \in 1..NCols(t) : t.cols[i] = name
Column(t, name) == t.data[ColIndex(t, name)]
\* df.drop(columns=[name])
DropCol(t, name) ==
    LET keep == SetToSeq({i \in 1..NCols(t) : t.cols[i] # name})
    IN  Table([k \in 1..Len(keep) |-> t.cols[keep[k]]],
              [k \in 1..Len(keep) |-> t.data[keep[k]]])
\* df.loc[mask], rows given as an increasing tuple of row numbers
TakeRows(t, rows) ==
    Table(t.cols, [c \in 1..NCols(t) |-> [k \in 1..Len(rows) |-> t.data[c][rows[k]]]])

\* ------------------------------------------------------------------ loader
\* What the file system holds at the path: nothing, bytes the parser of the
\* path's extension rejects, or a table that parser returns.
FILE_MISSING == [kind |-> "missing", table |-> Table(<<>>, <<>>)]
FILE_CORRUPT == [kind |-> "corrupt", table |-> Table(<<>>, <<>>)]
FileOf(t) == [kind |-> "table", table |-> t]

\* pd.read_csv(path) / arff.loadarff(path): the table, or an exception
ParseRaises(f) == f.kind # "table"

\* the loader, were the extension compared as written
LoadDatasetCaseSensitive(path, f) ==
    LET ext == SplitExt(path)
    IN  IF ext = EXT_CSV
        THEN IF ParseRaises(f) THEN None ELSE Some(f.table)
        ELSE IF ext = EXT_ARFF
        THEN IF ParseRaises(f) THEN None ELSE Some(f.table)
        ELSE None

\* DatasetMLAgent._load_dataset: Optional[DataFrame]
\* The bytes -> str decoding of the ARFF branch leaves the cells of the
\* model (already text) as they are.
LoadDataset(path, f) ==
    LET ext == Lower(SplitExt(path))
    IN  IF ext = EXT_CSV
        THEN IF ParseRaises(f) THEN None ELSE Some(f.table)
        ELSE IF ext = EXT_ARFF
        THEN IF ParseRaises(f) THEN None ELSE Some(f.table)
        ELSE None

\* ------------------------------------------------------------ preprocessor
\* Series.astype(float) raises when a cell is text that is no number.
AstypeFloatRaises(cells) == \E i \in 1..Len(cells) : IsTxt(cells[i])

\* dtype == object: the column read from the file holds text
IsObject(cells) == \E i \in 1..Len(cells) : IsTxt(cells[i])

\* The sort key of a cell under LabelEncoder: numbers (as text, after the
\* astype(str) fallback) before letters, a missing value last.
SortKey(c) == IF IsNum(c) THEN <<0, c[2]>> ELSE IF IsTxt(c) THEN <<1, c[2]>> ELSE <<2, 0>>
KeyLess(a, b) == a[1] < b[1] \/ (a[1] = b[1] /\ a[2] < b[2])

\* the codes, were they given in the order the values are first met
LabelEncodeFirstSeen(cells) ==
    LET first(i) == CHOOSE j \in 1..i : cells[j] = cells[i] /\ \A l \in 1..(j - 1) : cells[l] # cells[i]
    IN  [i \in 1..Len(cells) |->
            Num(Cardinality({first(l) : l \in {m \in 1..Len(cells) : first(m) < first(i)}}))]

\* LabelEncoder().fit_transform(column): each cell's code is the rank of
\* its value among the sorted distinct values of the column.
LabelEncode(cells) ==
    LET keys == {SortKey(cells[i]) : i \in 1..Len(cells)}
    IN  [i \in 1..Len(cells) |->
            Num(Cardinality({k \in keys : KeyLess(k, SortKey(cells[i]))}))]

\* Series.mean(): over the cells that are not missing; NaN when all are
ColumnMean(cells) ==
    LET present == {i \in 1..Len(cells) : IsNum(cells[i])}
        vals == [k \in 1..Cardinality(present) |-> cells[SetToSeq(present)[k]][2]]
    IN  IF present = {} THEN NaN ELSE Num(SumSeq(vals) \div Cardinality(present))

\* Series.fillna(value)
FillNa(cells, value) == [i \in 1..Len(cells) |-> IF IsNaN(cells[i]) THEN value ELSE cells[i]]

Impute(cells) ==
    IF \E i \in 1..Len(cells) : IsNaN(cells[i])
    THEN FillNa(cells, ColumnMean(cells))
    ELSE cells

PreprocessColumn(cells) == Impute(IF IsObject(cells) THEN LabelEncode(cells) ELSE cells)

\* DatasetMLAgent._preprocess: (X, y), or the ValueError of astype(float)
Preprocess(df, target_col) ==
    LET Xraw == DropCol(df, target_col)
    IN  [raised |-> AstypeFloatRaises(Column(df, target_col)),
         X |-> Table(Xraw.cols, [c \in 1..NCols(Xraw) |-> PreprocessColumn(Xraw.data[c])]),
         y |-> Column(df, target_col)]

HasNaN(cells) == \E i \in 1..Len(cells) : IsNaN(cells[i])
TableHasNaN(t) == \E c \in 1..NCols(t) : HasNaN(t.data[c])

\* -------------------------------------------------------------- candidates
\* candidate_models, in the order the dict is written
Candidates == <<"RandomForest_200", "RandomForest_500", "ExtraTrees_200",
                "GradientBoosting", "LinearRegression">>
NCand == Len(Candidates)

\* hasattr(model, "feature_importances_")
HasImportances(c) == Candidates[c] # "LinearRegression"

\* An estimator that rejects a missing value in X whatever its version.
RejectsNaNInX(c) == Candidates[c] \in {"GradientBoosting", "LinearRegression"}

\* ----------------------------------------------------------------- library
\* sk: what the libraries do on this dataset.
\*   fault   the fit that raises: candidate (0: none), fold, and whether the
\*           retry on float-coerced data succeeds
\*   err, w  the held-out residual y - pred of row r under candidate c
\*   imp     the feature importances a fitted model exposes
\*   iso     whether IsolationForest fits; score, its negated decision
\*           function
\*   rec     the outlier record whose construction raises (0: none)
\*   tie     the order a quicksort leaves equal keys in
\*   shuffle the permutation KFold draws from its seed
NoFault == [cand |-> 0, fold |-> 0, retry_ok |-> TRUE]

Wiggle(r) == (r % 3) - 1
Residual(lib, c, r) == lib.err[c] + lib.w * Wiggle(r)
Importance(lib, c, j) ==
    IF HasImportances(c) THEN (lib.imp.a * (j + c - 1) + lib.imp.b) % (MaxImp + 1) ELSE 0
Score(lib, r) == ((lib.score.a * r + lib.score.b) % (MaxScore + 1)) - 1

\* What the libraries do in a call when the process-wide generator is in
\* state g, were no random_state given: every draw comes from that generator
Unseeded(lib, g) ==
    [lib EXCEPT !.shuffle = (@ + g) % (MaxShuffle + 1),
                !.err = [c \in 1..NCand |-> (@[c] + g * c) % (MaxErr + 1)]]

\* What the libraries do in a call when the process-wide generator is in
\* state g: KFold, the forests, the boosting and the IsolationForest are all
\* built with random_state=42 (lines 158-164, 219, 260), which seeds a
\* generator of their own at each split and fit; the process-wide one is
\* not read.
Seeded(lib, g) == lib

\* ------------------------------------------------------------------- KFold
\* rng.shuffle(indices), for the seed of the call
Shuffled(n, s) == [i \in 1..n |-> ((i - 1 + s) % n) + 1]

\* KFold(n_splits=k, shuffle=True, random_state=42).split(X) raises when
\* there are fewer rows than folds.
SplitRaises(n, k) == k > n

\* the start of a fold, were the folds laid out as if all of n // k rows
FoldStartEven(n, k, f) == (f - 1) * (n \div k)

\* The first n % k folds hold n // k + 1 rows, the others n // k.
FoldSize(n, k, f) == (n \div k) + (IF f <= n % k THEN 1 ELSE 0)
FoldStart(n, k, f) == (f - 1) * (n \div k) + Min2(f - 1, n % k)

\* test_idx of fold f, increasing (split returns the rows of a mask)
TestRows(n, k, s, f) ==
    SetToSeq({Shuffled(n, s)[i] : i \in (FoldStart(n, k, f) + 1)..(FoldStart(n, k, f) + FoldSize(n, k, f))})
TrainRows(n, k, s, f) == SetToSeq((1..n) \ Range(TestRows(n, k, s, f)))

\* ----------------------------------------------------------------- metrics
\* the mean error of a fold, sign kept
FoldBias(res) == (SumSeq(res) * Prec) \div Len(res)

\* math.sqrt(mean_squared_error(y_test, preds)), in 1/Prec
FoldRmse(res) ==
    ISqrt((SumSeq([i \in 1..Len(res) |-> res[i] * res[i]]) * Prec * Prec) \div Len(res))
\* mean_absolute_error(y_test, preds), in 1/Prec
FoldMae(res) == (SumSeq([i \in 1..Len(res) |-> Abs(res[i])]) * Prec) \div Len(res)
\* float(np.mean(xs))
Mean(xs) == SumSeq(xs) \div Len(xs)

\* model.fit(X_train, y_train) raises: the library's fault on this fit, a
\* missing target value, or a missing feature value the estimator rejects.
FitRaises(lib, c, f, Xm, yv, train) ==
    \/ lib.fault.cand = c /\ lib.fault.fold = f
    \/ \E k \in 1..Len(train) : IsNaN(yv[train[k]])
    \/ RejectsNaNInX(c) /\ TableHasNaN(TakeRows(Xm, train))
\* model.fit(X_train.astype(float), y_train.astype(float)) raises
RetryRaises(lib, c, f, Xm, yv, train) ==
    \/ lib.fault.cand = c /\ lib.fault.fold = f /\ ~lib.fault.retry_ok
    \/ \E k \in 1..Len(train) : IsNaN(yv[train[k]])
    \/ RejectsNaNInX(c) /\ TableHasNaN(TakeRows(Xm, train))
\* model.predict(X_test) or a metric raises on a missing value
ScoreRaises(c, Xm, yv, test) ==
    \/ \E k \in 1..Len(test) : IsNaN(yv[test[k]])
    \/ RejectsNaNInX(c) /\ TableHasNaN(TakeRows(Xm, test))

\* ---------------------------------------------------------------- selector
\* min(model_results.items(), key=lambda kv: kv[1]["rmse"])[0]: Python's min
\* keeps its first argument unless a later one is strictly smaller.
RECURSIVE MinScan(_, _, _)
MinScan(results, k, best) ==
    IF k > Len(results) THEN best
    ELSE MinScan(results, k + 1, IF results[k].rmse < results[best].rmse THEN k ELSE best)

\* min, were a later candidate to replace the pick on an equal RMSE too
RECURSIVE MinScanLast(_, _, _)
MinScanLast(results, k, best) ==
    IF k > Len(results) THEN best
    ELSE MinScanLast(results, k + 1, IF results[k].rmse <= results[best].rmse THEN k ELSE best)
SelectLast(results) == MinScanLast(results, 2, 1)

SelectBest(results) == MinScan(results, 2, 1)

\* ------------------------------------------------------------------- sorts
\* Whether position a comes before position b when v is sorted; equal keys
\* stay in the order the library's sort leaves them in.
TieBefore(tie, a, b) == IF tie = "stable" THEN a < b ELSE a > b
BeforeAsc(v, tie, a, b) == v[a] < v[b] \/ (v[a] = v[b] /\ TieBefore(tie, a, b))
BeforeDesc(v, tie, a, b) == v[a] > v[b] \/ (v[a] = v[b] /\ TieBefore(tie, a, b))

\* np.argsort(v)
ArgSortAsc(v, tie) ==
    [k \in 1..Len(v) |->
        CHOOSE a \in 1..Len(v) : Cardinality({b \in 1..Len(v) : BeforeAsc(v, tie, b, a)}) = k - 1]
\* the row order of Series.sort_values(ascending=False)
ArgSortDesc(v, tie) ==
    [k \in 1..Len(v) |->
        CHOOSE a \in 1..Len(v) : Cardinality({b \in 1..Len(v) : BeforeDesc(v, tie, b, a)}) = k - 1]

\* s.head(n)
HeadN(s, n) == SubSeq(s, 1, Min2(n, Len(s)))
\* s[-n:]
LastN(s, n) == SubSeq(s, Len(s) - Min2(n, Len(s)) + 1, Len(s))

\* ------------------------------------------------------------ top features
\* the top features, were the sort ascending
TopFeatsAscending(fi, cols, tie) ==
    LET order == HeadN(ArgSortAsc(fi, tie), TOP_FEATURES)
    IN  [k \in 1..Len(order) |-> [name |-> cols[order[k]], importance |-> fi[order[k]]]]

\* pd.Series(importances, index=X.columns).sort_values(ascending=False)
\*   .head(5).to_dict(): the (name, importance) items in dict order
TopFeats(fi, cols, tie) ==
    LET order == HeadN(ArgSortDesc(fi, tie), TOP_FEATURES)
    IN  [k \in 1..Len(order) |-> [name |-> cols[order[k]], importance |-> fi[order[k]]]]

\* ---------------------------------------------------------------- quantile
\* np.quantile(xs, q / QScale), linear interpolation, in 1/QScale
Quantile(xs, q) ==
    LET order == ArgSortAsc(xs, "stable")
        sorted == [k \in 1..Len(xs) |-> xs[order[k]]]
        pos == (Len(xs) - 1) * q
        lo == (pos \div QScale) + 1
        frac == pos % QScale
    IN  IF frac = 0 THEN sorted[lo] * QScale
        ELSE sorted[lo] * QScale + frac * (sorted[lo + 1] - sorted[lo])

\* ---------------------------------------------------------------- outliers
\* the top indices, were the slice [:5]
TopIndicesLowest(scores, tie) == Reverse(HeadN(ArgSortAsc(scores, tie), TOP_OUTLIERS))

\* np.argsort(scores)[-5:][::-1]
TopIndices(scores, tie) == Reverse(LastN(ArgSortAsc(scores, tie), TOP_OUTLIERS))

\* ------------------------------------------------------------------- state
VARIABLES
    env,                  \* os.environ: DATASET_PATH, DOMAIN_COLUMN
    file,                 \* what the file system holds at the dataset path
    sk,                   \* what the libraries do on this dataset
    pc,                   \* the statement of analyze that runs next
    path, df, target_col, \* locals of analyze, lines 120-143
    X, y, domain_col_name,
    cand, fold,           \* the loop variables of the evaluation, 169 and 175
    rmses, maes, feature_importances, residuals,
    model_results, model_residuals,
    best_model_name, top_feats, lower_quantile, upper_quantile,
    outliers,
    dvals, dpos, domain_results,
    response,             \* the value analyze returned, once it has
    exc,                  \* the exception that left analyze, once one has
    fit_log,              \* history: the fit calls made so far (candidate,
                          \* IsolationForest, domain group), the attempts of
                          \* the latest candidate fit, the candidates
                          \* whose retry raised, and the (train, test) index
                          \* pairs kf.split gave the latest candidate
    server                \* the process: its os.environ and, per /run
                          \* request in flight (src/src/api/main.py), the
                          \* dataset asked for, the statement its thread is
                          \* at and what its analysis read; the state of
                          \* numpy's process-wide generator, the calls of
                          \* analyze completed and the outcome of the first
VARIABLE
    orch                  \* a VerboseOrchestrator (src/src/orchestrator.py):
                          \* its agents, the agent run reaches next, the
                          \* results so far, the prompts sent to the language
                          \* model and the calls of analyze made

vars == <<env, file, sk, pc, path, df, target_col, X, y, domain_col_name,
          cand, fold, rmses, maes, feature_importances, residuals,
          model_results, model_residuals,
          best_model_name, top_feats, lower_quantile, upper_quantile,
          outliers, dvals, dpos, domain_results, response, exc, fit_log,
          server, orch>>

\* The variables of a call of analyze
call == <<env, file, sk, pc, path, df, target_col, X, y, domain_col_name,
          cand, fold, rmses, maes, feature_importances, residuals,
          model_results, model_residuals,
          best_model_name, top_feats, lower_quantile, upper_quantile,
          outliers, dvals, dpos, domain_results, response, exc, fit_log>>

\* What a call of analyze is given and leaves alone, the process and the
\* orchestrator included
inputs == <<env, file, sk, server, orch>>
loadv == <<path, df, target_col>>
prepv == <<X, y, domain_col_name>>
evalv == <<cand, fold, rmses, maes, feature_importances, residuals,
           model_results, model_residuals>>
selv == <<best_model_name, top_feats, lower_quantile, upper_quantile>>
optv == <<outliers, dvals, dpos, domain_results>>

\* self.name, set by DatasetMLAgent.__init__
AGENT_NAME == "DatasetML"
\* self.dataset_env_var, as every caller constructs the agent
DATASET_ENV_VAR == "DATASET_PATH"

\* os.getenv(name)
Getenv(e, name) == IF name = "DATASET_PATH" THEN e.DATASET_PATH ELSE e.DOMAIN_COLUMN

\* an error result that also echoes a field of the success result
ErrorResultWithPath(text, arg) ==
    ("agent" :> AGENT_NAME) @@ ("_error" :> [text |-> text, arg |-> arg])
    @@ ("dataset_path" :> arg)

\* The four error results of analyze: the message and what is formatted
\* into it.
ErrorResult(text, arg) ==
    ("agent" :> AGENT_NAME) @@ ("_error" :> [text |-> text, arg |-> arg])
ERR_ENV == "Environment variable {} not set; cannot load dataset"
ERR_LOAD == "Failed to load dataset at {} (supported formats: CSV, ARFF)"
ERR_TARGET == "No effort column found in dataset; expected a column containing 'effort'"
ERR_FEATURES == "Dataset has no usable features after preprocessing"

\* the target, were the scan not to break at its first hit
FindTargetLast(cols) ==
    LET hits == {i \in 1..Len(cols) : Contains(EFFORT, Lower(cols[i]))}
    IN  IF hits = {} THEN None
        ELSE Some(cols[CHOOSE i \in hits : \A j \in hits : i >= j])

\* The first column, in table order, whose lowered name contains "effort"
\* (lines 133-137); None when no name does.
FindTarget(cols) ==
    LET hits == {i \in 1..Len(cols) : Contains(EFFORT, Lower(cols[i]))}
    IN  IF hits = {} THEN None
        ELSE Some(cols[CHOOSE i \in hits : \A j \in hits : i <= j])

\* the domain column, were a name that is no column of df replaced by the
\* first column and not dropped
ResolveDomainFallback(e, t) ==
    LET d == Getenv(e, "DOMAIN_COLUMN")
    IN  IF Falsy(d) THEN None
        ELSE IF ~HasCol(t, Get(d)) THEN Some(t.cols[1])
        ELSE d

\* os.getenv("DOMAIN_COLUMN") or None, dropped when no column of df (145-149)
ResolveDomain(e, t) ==
    LET d == Getenv(e, "DOMAIN_COLUMN")
    IN  IF Falsy(d) THEN None
        ELSE IF ~HasCol(t, Get(d)) THEN None
        ELSE d

Return(r) ==
    /\ response' = Some(r)
    /\ pc' = "done"
    /\ exc' = exc

Raise(e) ==
    /\ exc' = e
    /\ pc' = "raised"
    /\ response' = response

\* ----------------------------------------------------------------- actions
\* lines 120-125
ResolvePath ==
    /\ pc = "start"
    /\ path' = Getenv(env, DATASET_ENV_VAR)
    /\ IF Falsy(path')
       THEN Return(ErrorResult(ERR_ENV, <<DATASET_ENV_VAR>>))
       ELSE /\ pc' = "load"
            /\ UNCHANGED <<response, exc>>
    /\ UNCHANGED <<inputs, df, target_col, prepv, evalv, selv, optv, fit_log>>

\* lines 126-131
Load ==
    /\ pc = "load"
    /\ df' = LoadDataset(Get(path), file)
    /\ IF IsNone(df') \/ IsEmpty(Get(df'))
       THEN Return(ErrorResult(ERR_LOAD, Get(path)))
       ELSE /\ pc' = "target"
            /\ UNCHANGED <<response, exc>>
    /\ UNCHANGED <<inputs, path, target_col, prepv, evalv, selv, optv, fit_log>>

\* lines 132-142
IdentifyTarget ==
    /\ pc = "target"
    /\ target_col' = FindTarget(Get(df).cols)
    /\ IF IsNone(target_col')
       THEN Return(ErrorResult(ERR_TARGET, <<>>))
       ELSE /\ pc' = "preprocess"
            /\ UNCHANGED <<response, exc>>
    /\ UNCHANGED <<inputs, path, df, prepv, evalv, selv, optv, fit_log>>

\* line 143: the ValueError of _preprocess is not caught
PreprocessStep ==
    /\ pc = "preprocess"
    /\ LET r == Preprocess(Get(df), Get(target_col))
       IN  IF r.raised
           THEN /\ Raise("ValueError")
                /\ UNCHANGED <<X, y>>
           ELSE /\ X' = r.X
                /\ y' = r.y
                /\ pc' = "validate"
                /\ UNCHANGED <<response, exc>>
    /\ UNCHANGED <<inputs, loadv, domain_col_name, evalv, selv, optv, fit_log>>

\* lines 145-166, with the features checked once a first fit has been made
ValidateAfterFit ==
    /\ pc = "validate"
    /\ domain_col_name' = ResolveDomain(env, Get(df))
    /\ IF NCols(X) = 0
       THEN /\ Return(ErrorResult(ERR_FEATURES, <<>>))
            /\ fit_log' = [fit_log EXCEPT !.model = @ + 1]
            /\ UNCHANGED evalv
       ELSE /\ pc' = "eval"
            /\ cand' = 1
            /\ fold' = 1
            /\ rmses' = <<>>
            /\ maes' = <<>>
            /\ feature_importances' = [j \in 1..NCols(X) |-> 0]
            /\ residuals' = <<>>
            /\ model_results' = <<>>
            /\ model_residuals' = <<>>
            /\ fit_log' = fit_log
            /\ UNCHANGED <<response, exc>>
    /\ UNCHANGED <<inputs, loadv, X, y, selv, optv>>

\* lines 145-166
Validate ==
    /\ pc = "validate"
    /\ domain_col_name' = ResolveDomain(env, Get(df))
    /\ IF NCols(X) = 0
       THEN /\ Return(ErrorResult(ERR_FEATURES, <<>>))
            /\ UNCHANGED evalv
       ELSE /\ pc' = "eval"
            /\ cand' = 1
            /\ fold' = 1
            /\ rmses' = <<>>
            /\ maes' = <<>>
            /\ feature_importances' = [j \in 1..NCols(X) |-> 0]
            /\ residuals' = <<>>
            /\ model_results' = <<>>
            /\ model_residuals' = <<>>
            /\ UNCHANGED <<response, exc>>
    /\ UNCHANGED <<inputs, loadv, X, y, selv, optv, fit_log>>

\* The held-out residuals (y_test - preds).tolist() of one fold
FoldResiduals(lib, c, test) == [k \in 1..Len(test) |-> Residual(lib, c, test[k])]

\* feature_importances /= kf.get_n_splits()
MeanImportances(fi) == [j \in 1..Len(fi) |-> fi[j] \div N_SPLITS]

\* lines 169-202, one pass of the inner loop: fit (and its one retry in the
\* except branch, itself outside any try), predict, the fold's metrics, and
\* after the last fold the candidate's entry.
EvalFold ==
    /\ pc = "eval"
    /\ LET n == NRows(X)
           lib == Seeded(sk, server.rng)
           train == TrainRows(n, N_SPLITS, lib.shuffle, fold)
           test == TestRows(n, N_SPLITS, lib.shuffle, fold)
           first == FitRaises(lib, cand, fold, X, y, train)
           second == first /\ RetryRaises(lib, cand, fold, X, y, train)
           res == FoldResiduals(lib, cand, test)
           split == [train |-> train, test |-> test]
           rm == Append(rmses, FoldRmse(res))
           ma == Append(maes, FoldMae(res))
           fi == [j \in 1..NCols(X) |->
                    feature_importances[j]
                    + (IF HasImportances(cand) THEN Importance(sk, cand, j) ELSE 0)]
           rs == residuals \o res
       IN  IF SplitRaises(n, N_SPLITS)
           THEN /\ Raise("ValueError")
                /\ UNCHANGED <<evalv, fit_log>>
           ELSE IF second
           THEN /\ Raise("ValueError")
                /\ fit_log' = [fit_log EXCEPT !.model = @ + 2, !.attempts = 2,
                                              !.failed = @ \cup {cand}]
                /\ UNCHANGED evalv
           ELSE IF ScoreRaises(cand, X, y, test)
           THEN /\ Raise("ValueError")
                /\ fit_log' = [fit_log EXCEPT !.model = @ + (IF first THEN 2 ELSE 1),
                                              !.attempts = IF first THEN 2 ELSE 1]
                /\ UNCHANGED evalv
           ELSE /\ fit_log' = [fit_log EXCEPT !.model = @ + (IF first THEN 2 ELSE 1),
                                              !.attempts = IF first THEN 2 ELSE 1,
                                              !.folds = IF fold = 1 THEN <<split>>
                                                        ELSE Append(@, split)]
                /\ UNCHANGED <<response, exc>>
                /\ IF fold < N_SPLITS
                   THEN /\ fold' = fold + 1
                        /\ rmses' = rm
                        /\ maes' = ma
                        /\ feature_importances' = fi
                        /\ residuals' = rs
                        /\ pc' = "eval"
                        /\ UNCHANGED <<cand, model_results, model_residuals>>
                   ELSE /\ model_results' =
                              Append(model_results,
                                     [name |-> Candidates[cand],
                                      rmse |-> Mean(rm),
                                      mae |-> Mean(ma),
                                      feature_importances |-> MeanImportances(fi)])
                        /\ model_residuals' = Append(model_residuals, rs)
                        /\ cand' = cand + 1
                        /\ fold' = 1
                        /\ rmses' = <<>>
                        /\ maes' = <<>>
                        /\ feature_importances' = [j \in 1..NCols(X) |-> 0]
                        /\ residuals' = <<>>
                        /\ pc' = IF cand = NCand THEN "select" ELSE "eval"
    /\ UNCHANGED <<inputs, loadv, prepv, selv, optv>>

\* the residual pool, were it that of the first candidate
FirstResiduals(mres, best) == mres[1]

\* model_residuals.get(best_model_name, [])
BestResiduals(mres, best) == mres[best]

\* lines 204-216
Select ==
    /\ pc = "select"
    /\ LET best == SelectBest(model_results)
           pool == BestResiduals(model_residuals, best)
       IN  /\ best_model_name' = Some(Candidates[best])
           /\ top_feats' = TopFeats(model_results[best].feature_importances, X.cols, sk.tie)
           /\ lower_quantile' = IF Len(pool) > 0 THEN Some(Quantile(pool, QLow)) ELSE None
           /\ upper_quantile' = IF Len(pool) > 0 THEN Some(Quantile(pool, QHigh)) ELSE None
    /\ pc' = "outliers"
    /\ UNCHANGED <<inputs, loadv, prepv, evalv, optv, response, exc, fit_log>>

\* str(value)
StrCell(c) == <<"text", c>>

\* an outlier record, were the domain label never attached
OutlierRecordUnlabelled(row, scores, yv, t, dcol) ==
    [row_index |-> row - 1, score |-> scores[row], effort |-> yv[row]]

\* One outlier record, lines 229-234; rows are numbered from 0 in the code.
OutlierRecord(row, scores, yv, t, dcol) ==
    [row_index |-> row - 1, score |-> scores[row], effort |-> yv[row]]
    @@ (IF IsNone(dcol) THEN <<>> ELSE ("domain" :> StrCell(Column(t, Get(dcol))[row])))

\* IsolationForest(...).fit(X) raises: the library's fault, or a missing value
IsoRaises(lib, Xm) == ~lib.iso \/ TableHasNaN(Xm)

\* a conversion in the k-th outliers.append({...}) raises
RecordRaises(lib, top) == lib.rec \in 1..Len(top)

\* the outliers, were the records appended before a failure kept
OutliersPartial(lib, Xm, yv, t, dcol) ==
    LET scores == [r \in 1..NRows(Xm) |-> Score(lib, r)]
        top == TopIndices(scores, lib.tie)
        built == IF RecordRaises(lib, top) THEN lib.rec - 1 ELSE Len(top)
    IN  IF IsoRaises(lib, Xm) THEN <<>>
        ELSE [k \in 1..built |-> OutlierRecord(top[k], scores, yv, t, dcol)]

\* outliers after the try/except of lines 218-236: the records of the top
\* rows, or [] when anything in the try raised
OutliersOf(lib, Xm, yv, t, dcol) ==
    LET scores == [r \in 1..NRows(Xm) |-> Score(lib, r)]
        top == TopIndices(scores, lib.tie)
    IN  IF IsoRaises(lib, Xm) \/ RecordRaises(lib, top) THEN <<>>
        ELSE [k \in 1..Len(top) |-> OutlierRecord(top[k], scores, yv, t, dcol)]

\* lines 217-236
DetectOutliers ==
    /\ pc = "outliers"
    /\ outliers' = OutliersOf(sk, X, y, Get(df), domain_col_name)
    /\ fit_log' = [fit_log EXCEPT !.iso = @ + 1]
    /\ pc' = "domain"
    /\ UNCHANGED <<inputs, loadv, prepv, evalv, selv, dvals, dpos, domain_results,
                   response, exc>>

\* df[domain_col_name].dropna().unique()
UniqueValues(cells) == {cells[i] : i \in {k \in 1..Len(cells) : ~IsNaN(cells[k])}}
\* sorted(values) raises TypeError when it compares a str with a number
SortedRaises(S) == (\E c \in S : IsNum(c)) /\ (\E c \in S : IsTxt(c))
RECURSIVE SortedCells(_)
SortedCells(S) ==
    IF S = {} THEN <<>>
    ELSE LET m == CHOOSE c \in S : \A z \in S : z = c \/ KeyLess(SortKey(c), SortKey(z))
         IN  <<m>> \o SortedCells(S \ {m})

\* lines 239-242: the values of the domain column, outside the per-value try
DomainEnter ==
    /\ pc = "domain"
    /\ domain_results' = <<>>
    /\ dpos' = 1
    /\ IF IsNone(domain_col_name)
       THEN /\ dvals' = <<>>
            /\ pc' = "dloop"
            /\ UNCHANGED <<response, exc>>
       ELSE LET S == UniqueValues(Column(Get(df), Get(domain_col_name)))
            IN  IF SortedRaises(S)
                THEN /\ Raise("TypeError")
                     /\ dvals' = <<>>
                ELSE /\ dvals' = SortedCells(S)
                     /\ pc' = "dloop"
                     /\ UNCHANGED <<response, exc>>
    /\ UNCHANGED <<inputs, loadv, prepv, evalv, selv, outliers, fit_log>>

\* The rows of df whose domain cell equals dval (line 244)
GroupRows(t, dcol, dval) ==
    SetToSeq({r \in 1..NRows(t) : Column(t, dcol)[r] = dval})

\* X_sub, were the domain column left among the features
SubFeaturesKeepDomain(t, rows, target, dcol) ==
    Preprocess(TakeRows(t, rows), target).X

\* X_sub of lines 251-253
SubFeatures(t, rows, target, dcol) ==
    LET Xs == Preprocess(TakeRows(t, rows), target).X
    IN  IF HasCol(Xs, dcol) THEN DropCol(Xs, dcol) ELSE Xs

\* the failure of a group, were the handler to leave the loop (break) and
\* not go on with the next value
GroupRaisesOnward(lib, pos, Xs, ys) ==
    \/ lib.dfault # 0 /\ lib.dfault <= pos
    \/ NCols(Xs) = 0
    \/ HasNaN(ys)
    \/ TableHasNaN(Xs)

\* Whether some fit or metric of the group raises (caught at line 284)
GroupRaises(lib, pos, Xs, ys) ==
    \/ lib.dfault = pos
    \/ NCols(Xs) = 0
    \/ HasNaN(ys)
    \/ TableHasNaN(Xs)

\* the number of folds of a group, were it that of the main evaluation
SubSplitsAsMain(m) == Min2(N_SPLITS, m)

\* n_splits of sub_kf, line 260
SubSplits(m) == Min2(SUB_SPLITS, m)

\* sub_results of lines 255-274 for the group of the given rows of df
SubResults(lib, rows) ==
    LET m == Len(rows)
        k == SubSplits(m)
        res(c, f) == FoldResiduals(lib, c, [i \in 1..FoldSize(m, k, f) |->
                                               rows[TestRows(m, k, lib.shuffle, f)[i]]])
    IN  [c \in 1..NCand |->
            [name |-> Candidates[c],
             rmse |-> Mean([f \in 1..k |-> FoldRmse(res(c, f))]),
             mae |-> Mean([f \in 1..k |-> FoldMae(res(c, f))])]]

\* the skip, were its threshold the number of folds
SkipsBelowFolds(rows) == Len(rows) < SUB_SPLITS

\* if df_sub.shape[0] < 5: continue (line 248)
SkipsGroup(rows) == Len(rows) < MIN_GROUP

\* lines 242-285, one pass of the loop over the domain values
DomainValue ==
    /\ pc = "dloop"
    /\ dpos <= Len(dvals)
    /\ LET dcol == Get(domain_col_name)
           rows == GroupRows(Get(df), dcol, dvals[dpos])
           Xs == SubFeatures(Get(df), rows, Get(target_col), dcol)
           ys == [i \in 1..Len(rows) |-> y[rows[i]]]
           sub == SubResults(sk, rows)
           b == SelectBest(sub)
           group == [key |-> StrCell(dvals[dpos]), rows |-> rows, cols |-> Xs.cols,
                     n_splits |-> SubSplits(NRows(Xs))]
       IN  IF SkipsGroup(rows)
           THEN UNCHANGED <<domain_results, fit_log>>
           ELSE IF GroupRaises(sk, dpos, Xs, ys)
           THEN /\ fit_log' = [fit_log EXCEPT !.domain = @ + 1,
                                              !.groups = Append(@, group)]
                /\ UNCHANGED domain_results
           ELSE /\ fit_log' = [fit_log EXCEPT !.domain = @ + 1,
                                              !.groups = Append(@, group)]
                /\ domain_results' =
                      Append(domain_results,
                             [key |-> StrCell(dvals[dpos]),
                              best_model |-> sub[b].name,
                              best_rmse |-> sub[b].rmse,
                              best_mae |-> sub[b].mae,
                              all_models |-> sub,
                              count |-> Len(rows)])
    /\ dpos' = dpos + 1
    /\ UNCHANGED <<inputs, pc, loadv, prepv, evalv, selv, outliers, dvals, response, exc>>

\* response["all_models"], lines 296-299
AllModels(results) ==
    [k \in 1..Len(results) |->
        [name |-> results[k].name, rmse |-> results[k].rmse, mae |-> results[k].mae]]

\* the response, were the metrics beside best_model those of the first entry
\* of model_results
BuildResponseFirstMetrics(p, target, results, bestName, feats, lo, hi, outs, doms) ==
    [agent |-> AGENT_NAME,
     dataset_path |-> p,
     target_column |-> target,
     best_model |-> bestName,
     best_model_rmse |-> results[1].rmse,
     best_model_mae |-> results[1].mae,
     top_features |-> feats,
     all_models |-> AllModels(results)]
    @@ (IF ~IsNone(lo) /\ ~IsNone(hi)
        THEN ("prediction_interval" :>
                [lower_residual_quantile |-> Get(lo),
                 upper_residual_quantile |-> Get(hi),
                 interval_width |-> Get(hi) - Get(lo)])
        ELSE <<>>)
    @@ (IF Len(outs) > 0 THEN ("outliers" :> outs) ELSE <<>>)
    @@ (IF Len(doms) > 0 THEN ("domain_specific_models" :> doms) ELSE <<>>)

\* lines 288-312
BuildResponse(p, target, results, bestName, feats, lo, hi, outs, doms) ==
    LET best == CHOOSE k \in 1..Len(results) : results[k].name = bestName
    IN  [agent |-> AGENT_NAME,
         dataset_path |-> p,
         target_column |-> target,
         best_model |-> bestName,
         best_model_rmse |-> results[best].rmse,
         best_model_mae |-> results[best].mae,
         top_features |-> feats,
         all_models |-> AllModels(results)]
        @@ (IF ~IsNone(lo) /\ ~IsNone(hi)
            THEN ("prediction_interval" :>
                    [lower_residual_quantile |-> Get(lo),
                     upper_residual_quantile |-> Get(hi),
                     interval_width |-> Get(hi) - Get(lo)])
            ELSE <<>>)
        @@ (IF Len(outs) > 0 THEN ("outliers" :> outs) ELSE <<>>)
        @@ (IF Len(doms) > 0 THEN ("domain_specific_models" :> doms) ELSE <<>>)

Respond ==
    /\ pc = "dloop"
    /\ dpos > Len(dvals)
    /\ Return(BuildResponse(Get(path), Get(target_col), model_results,
                            Get(best_model_name), top_feats,
                            lower_quantile, upper_quantile, outliers, domain_results))
    /\ UNCHANGED <<inputs, loadv, prepv, evalv, selv, optv, fit_log>>

\* -------------------------------------------------------------- API server
\* POST /run (src/src/api/main.py, run): a plain def, which the framework
\* runs on a thread of its pool, one per request in flight.  The handler
\* writes the dataset of its request into os.environ, statement by
\* statement, and the dataset agent its orchestrator includes reads
\* os.environ back in analyze: the path at line 120, the domain column at
\* line 146, the load and the preprocessing in between.  (VerboseOrchestrator
\* .run of this tree drives each included agent through build_prompt and the
\* LLM; the call of analyze on the request's thread is the one the docstring
\* of run describes.)
Requests == 1..NRequests

\* a registered dataset: _datasets[dataset_id] = {"path", "domain_column"}
DatasetInfo(p, d) == [path |-> p, domain_column |-> d]

\* analyze has read nothing yet
NothingRead == [reads |-> 0, path |-> <<>>, domain |-> <<>>]

\* No request in flight
ServerIdle ==
    [environ |-> [DATASET_PATH |-> <<>>, DOMAIN_COLUMN |-> <<>>],
     datasets |-> <<>>,
     req |-> [r \in Requests |-> 0],
     at |-> [r \in Requests |-> "done"],
     used |-> [r \in Requests |-> NothingRead],
     include |-> [r \in Requests |-> FALSE],
     workers |-> NRequests,
     rng |-> 0, calls |-> 0, prior |-> <<>>]

\* Every request received, request r for the dataset ids[r] (0: none asked)
ServerStart(reg, ids) ==
    [environ |-> [DATASET_PATH |-> <<>>, DOMAIN_COLUMN |-> <<>>],
     datasets |-> reg,
     req |-> ids,
     at |-> [r \in Requests |-> "set_path"],
     used |-> [r \in Requests |-> NothingRead],
     include |-> [r \in Requests |-> FALSE],
     workers |-> NRequests,
     rng |-> 0, calls |-> 0, prior |-> <<>>]

\* dataset_info of request r
DatasetOf(r) == server.datasets[server.req[r]]
\* dataset_id is not blank; _datasets.get(dataset_id) is not None
AsksDataset(r) == server.req[r] # 0
KnownDataset(r) == server.req[r] \in 1..Len(server.datasets)

\* The thread of request r may run: with a pool of one worker the requests
\* are handled one after the other, in the order received
Scheduled(r) ==
    \/ server.workers > 1
    \/ /\ \A q \in Requests : q < r => server.at[q] = "done"
       /\ \A q \in Requests : q > r => server.at[q] = "set_path"

\* os.environ[name] = value; del os.environ[name] is value None
SetEnv(e, name, value) == [e EXCEPT ![name] = value]

\* run, lines 181-189 and 197-200: DATASET_PATH is set to the path of the
\* request's dataset, or deleted when the request names none; an unknown
\* dataset_id ends the request with the 404 of line 187
SetPath(r) ==
    /\ server.at[r] = "set_path"
    /\ Scheduled(r)
    /\ server' =
          IF AsksDataset(r) /\ ~KnownDataset(r)
          THEN [server EXCEPT !.at[r] = "done"]
          ELSE [server EXCEPT
                  !.environ = SetEnv(@, "DATASET_PATH",
                                     IF AsksDataset(r) THEN <<DatasetOf(r).path>> ELSE <<>>),
                  !.at[r] = "set_domain"]
    /\ UNCHANGED <<call, orch>>

\* the handler, were DOMAIN_COLUMN left as it is for a dataset without
\* domain column
SetDomainKeep(r) ==
    /\ server.at[r] = "set_domain"
    /\ Scheduled(r)
    /\ server' =
          [server EXCEPT
             !.environ = IF AsksDataset(r) /\ Falsy(DatasetOf(r).domain_column)
                         THEN @
                         ELSE SetEnv(@, "DOMAIN_COLUMN",
                                     IF AsksDataset(r) THEN DatasetOf(r).domain_column
                                     ELSE <<>>),
             !.include[r] = AsksDataset(r),
             !.at[r] = "orch"]
    /\ UNCHANGED <<call, orch>>

\* run, lines 190-196 and 201-202: DOMAIN_COLUMN is set when the dataset has
\* a domain column and deleted otherwise; include_dataset is set for a
\* request with a dataset (lines 182 and 196)
SetDomain(r) ==
    /\ server.at[r] = "set_domain"
    /\ Scheduled(r)
    /\ server' =
          [server EXCEPT
             !.environ = SetEnv(@, "DOMAIN_COLUMN",
                                IF AsksDataset(r) /\ ~Falsy(DatasetOf(r).domain_column)
                                THEN DatasetOf(r).domain_column ELSE <<>>),
             !.include[r] = AsksDataset(r),
             !.at[r] = "orch"]
    /\ UNCHANGED <<call, orch>>

\* run, lines 209-215: the orchestrator is built, with the dataset agent when
\* include_dataset, and run
BuildOrch(r) ==
    /\ server.at[r] = "orch"
    /\ Scheduled(r)
    /\ server' = [server EXCEPT !.at[r] = IF server.include[r] THEN "read_path" ELSE "done"]
    /\ UNCHANGED <<call, orch>>

\* analyze, lines 120-125, on the thread of request r
ReadPath(r) ==
    /\ server.at[r] = "read_path"
    /\ Scheduled(r)
    /\ LET p == Getenv(server.environ, DATASET_ENV_VAR)
       IN  server' =
             [server EXCEPT
                !.used[r] = [@ EXCEPT !.reads = 1, !.path = p],
                !.at[r] = IF Falsy(p) THEN "done" ELSE "read_domain"]
    /\ UNCHANGED <<call, orch>>

\* analyze, line 146, on the thread of request r
ReadDomain(r) ==
    /\ server.at[r] = "read_domain"
    /\ Scheduled(r)
    /\ LET d == Getenv(server.environ, "DOMAIN_COLUMN")
       IN  server' =
             [server EXCEPT
                !.used[r] = [@ EXCEPT !.reads = 2, !.domain = IF Falsy(d) THEN <<>> ELSE d],
                !.at[r] = "done"]
    /\ UNCHANGED <<call, orch>>

\* ------------------------------------------------------------ orchestrator
\* self.agents, in the order __init__ fills the dict (lines 44-57): the nine
\* LLM-driven agents, then the dataset agent when it is included
LLM_AGENTS == <<"architect", "pm", "cost", "security", "devops", "performance",
                "data", "ux", "datasci">>
DATASET_AGENT == "dataset_ml"
Agents(include_dataset) ==
    IF include_dataset THEN Append(LLM_AGENTS, DATASET_AGENT) ELSE LLM_AGENTS

\* agent.build_prompt(...): the dataset agent's is the empty string
BuildPrompt(key) == IF key = DATASET_AGENT THEN "" ELSE "prompt"

\* What llm.invoke(prompt).content can be: a JSON object, text that is no
\* JSON, the empty string
LlmReplies == {"json", "text", ""}

\* json.loads(resp or "{}"), and the error entry of the except branch
ParseReply(resp) ==
    IF resp = "json" THEN [by |-> "llm", value |-> "object"]
    ELSE IF resp = "" THEN [by |-> "llm", value |-> "{}"]
    ELSE [by |-> "llm", value |-> "_error"]

\* No orchestrator
OrchIdle ==
    [agents |-> <<>>, pos |-> 1, results |-> <<>>, prompts |-> <<>>, analyze_calls |-> 0]
\* VerboseOrchestrator(include_dataset_agent=include)
OrchStart(include) ==
    [agents |-> Agents(include), pos |-> 1, results |-> <<>>, prompts |-> <<>>,
     analyze_calls |-> 0]

\* run, lines 66-76, one pass of the loop: whatever the agent, its prompt is
\* built and sent to the language model and the reply parsed into its entry;
\* no branch calls agent.analyze
RunAgent ==
    /\ orch.pos <= Len(orch.agents)
    /\ LET key == orch.agents[orch.pos]
           prompt == BuildPrompt(key)
       IN  \E resp \in LlmReplies :
              orch' = [orch EXCEPT
                         !.prompts = Append(@, [agent |-> key, prompt |-> prompt]),
                         !.results = Append(@, [key |-> key] @@ ParseReply(resp)),
                         !.pos = @ + 1]
    /\ UNCHANGED <<call, server>>

\* ------------------------------------------------------------------ inputs
\* Column names and dataset paths, as str.
N_Effort == <<"E", "f", "f", "o", "r", "t">>
N_EFFORT_H == <<"E", "F", "F", "O", "R", "T", "_", "H">>
N_xEFfort == <<"x", "E", "F", "f", "o", "r", "t">>
N_Effor == <<"E", "f", "f", "o", "r">>
N_Size == <<"S", "i", "z", "e">>
N_Team == <<"T", "e", "a", "m">>
N_Region == <<"R", "e", "g", "i", "o", "n">>
NamePool == {N_Effort, N_EFFORT_H, N_xEFfort, N_Effor, N_Size}

Digits == <<"1", "2", "3", "4", "5", "6", "7", "8", "9">>
FeatName(j) == <<"x", Digits[j]>>

P_csv == <<"d", ".", "c", "s", "v">>
P_CSV == <<"d", ".", "C", "S", "V">>
P_arff == <<"d", ".", "v", "2", ".", "a", "r", "f", "f">>
P_txt == <<"d", ".", "t", "x", "t">>
P_noext == <<"d", "c", "s", "v">>
Paths == {P_csv, P_CSV, P_arff, P_txt, P_noext}

\* Columns of n cells: numbers, numbers with a gap, nothing but gaps, text,
\* text with a gap, text mixed with numbers.
Profiles == {"num", "numnan", "allnan", "txt", "txtnan", "mixed"}
ProfileCell(p, r) ==
    CASE p = "num" -> Num(r)
      [] p = "numnan" -> IF r = 2 THEN NaN ELSE Num(r)
      [] p = "allnan" -> NaN
      [] p = "txt" -> Txt((r % 2) + 1)
      [] p = "txtnan" -> IF r = 2 THEN NaN ELSE Txt((r % 2) + 1)
      [] OTHER -> IF r % 2 = 0 THEN Num(r) ELSE Txt(1)
ProfileColumn(p, n) == [r \in 1..n |-> ProfileCell(p, r)]

NumTable(cols, n) == Table(cols, [c \in 1..Len(cols) |-> ProfileColumn("num", n)])
BaseTable(n) == NumTable(<<N_Size, N_Effort>>, n)
WideTable(nf, n) == NumTable(<<N_Effort>> \o [j \in 1..nf |-> FeatName(j)], n)
\* a rows of one domain value, then b rows of another
DomainTable(a, b) ==
    Table(<<N_Size, N_Region, N_Effort>>,
          <<ProfileColumn("num", a + b),
            [r \in 1..(a + b) |-> IF r <= a THEN Txt(1) ELSE Txt(2)],
            ProfileColumn("num", a + b)>>)

ColumnLists ==
    {s \in UNION {[1..k -> NamePool] : k \in 1..MaxCols} :
        \A i, j \in 1..Len(s) : i # j => s[i] # s[j]}

BaseSk ==
    [fault |-> NoFault, err |-> [c \in 1..NCand |-> 0], w |-> 0,
     imp |-> [a |-> 1, b |-> 0], iso |-> TRUE, score |-> [a |-> 1, b |-> 0],
     rec |-> 0, tie |-> "stable", shuffle |-> 0, dfault |-> 0]

Env(p, d) == [DATASET_PATH |-> p, DOMAIN_COLUMN |-> d]
Scn(e, f, l) == [env |-> e, file |-> f, sk |-> l]
CsvOf(t) == Scn(Env(Some(P_csv), None), FileOf(t), BaseSk)

\* The configuration and the file system
ScnConfig ==
    {Scn(Env(p, None), f, BaseSk) :
        p \in {None, Some(<<>>)} \cup {Some(q) : q \in Paths},
        f \in {FILE_MISSING, FILE_CORRUPT, FileOf(BaseTable(0)), FileOf(BaseTable(N_SPLITS))}}
\* The column names
ScnSchema == {CsvOf(NumTable(cols, N_SPLITS)) : cols \in ColumnLists}
\* The number of rows, and the shuffle
ScnRows ==
    {Scn(Env(Some(P_csv), None), FileOf(BaseTable(n)), [BaseSk EXCEPT !.shuffle = s]) :
        n \in 1..MaxRows, s \in 0..MaxShuffle}
\* The cells of the target and of a feature
ScnCells ==
    {CsvOf(Table(<<N_Effort, N_Team>>,
                 <<ProfileColumn(pt, N_SPLITS), ProfileColumn(pf, N_SPLITS)>>)) :
        pt \in {"num", "numnan", "txt"}, pf \in Profiles}
\* The errors of the candidates
ScnMetrics ==
    {Scn(Env(Some(P_csv), None), FileOf(BaseTable(n)),
         [BaseSk EXCEPT !.err = e, !.w = w]) :
        n \in N_SPLITS..MaxRows, e \in [1..NCand -> 0..MaxErr], w \in 0..MaxWiggle}
\* A fit that raises
ScnFaults ==
    {Scn(Env(Some(P_csv), None), FileOf(BaseTable(N_SPLITS)),
         [BaseSk EXCEPT !.fault = [cand |-> c, fold |-> f, retry_ok |-> ok]]) :
        c \in 1..NCand, f \in 1..N_SPLITS, ok \in BOOLEAN}
\* The number of features, their importances, and which candidate wins
ScnWide ==
    {Scn(Env(Some(P_csv), None), FileOf(WideTable(nf, N_SPLITS)),
         [BaseSk EXCEPT !.err = [c \in 1..NCand |-> IF c = best THEN 0 ELSE 1],
                        !.imp = [a |-> ia, b |-> ib], !.tie = tie]) :
        nf \in 1..MaxFeat, best \in 1..NCand, ia \in 0..MaxImp, ib \in 0..MaxImp,
        tie \in {"stable", "reverse"}}
\* The anomaly scores
ScnScores ==
    {Scn(Env(Some(P_csv), None), FileOf(BaseTable(n)),
         [BaseSk EXCEPT !.iso = iso, !.rec = rf, !.score = [a |-> sa, b |-> sb],
                        !.tie = tie]) :
        n \in N_SPLITS..MaxRows, iso \in BOOLEAN, rf \in {0, 1, 3},
        sa \in 0..MaxScore, sb \in 0..MaxScore, tie \in {"stable", "reverse"}}
\* The domain column and its groups
ScnDomain ==
    {Scn(Env(Some(P_csv), d), FileOf(DomainTable(a, b)),
         [BaseSk EXCEPT !.dfault = df0, !.w = m.w,
                        !.err = [c \in 1..NCand |-> IF c >= m.best THEN 0 ELSE MaxErr]]) :
        d \in {None, Some(<<>>), Some(N_Region), Some(N_Team), Some(N_Effort)},
        a \in (MIN_GROUP - 1)..MaxGroup, b \in 0..MaxGroup, df0 \in 0..2,
        m \in {[w |-> 0, best |-> 1], [w |-> MaxWiggle, best |-> 3]}}
\* The cells of the domain column
ScnDomainCells ==
    {Scn(Env(Some(P_csv), Some(N_Team)),
         FileOf(Table(<<N_Effort, N_Team>>,
                      <<ProfileColumn("num", n), ProfileColumn(pd, n)>>)),
         [BaseSk EXCEPT !.iso = iso]) :
        pd \in Profiles, n \in N_SPLITS..MaxRows, iso \in BOOLEAN}
\* A table of the target alone
ScnTargetOnly ==
    {CsvOf(Table(<<N_Effort>>, <<ProfileColumn(pt, n)>>)) :
        pt \in {"num", "numnan", "txt"}, n \in 0..N_SPLITS}

Scenarios ==
    ScnConfig \cup ScnSchema \cup ScnRows \cup ScnCells \cup ScnMetrics
    \cup ScnFaults \cup ScnWide \cup ScnScores \cup ScnDomain \cup ScnDomainCells
    \cup ScnTargetOnly

\* ----------------------------------------------------------- specification
\* The state when analyze is called in scenario s.
CallStart(s) ==
    /\ env = s.env
    /\ file = s.file
    /\ sk = s.sk
    /\ pc = "start"
    /\ path = None
    /\ df = None
    /\ target_col = None
    /\ X = Table(<<>>, <<>>)
    /\ y = <<>>
    /\ domain_col_name = None
    /\ cand = 0
    /\ fold = 0
    /\ rmses = <<>>
    /\ maes = <<>>
    /\ feature_importances = <<>>
    /\ residuals = <<>>
    /\ model_results = <<>>
    /\ model_residuals = <<>>
    /\ best_model_name = None
    /\ top_feats = <<>>
    /\ lower_quantile = None
    /\ upper_quantile = None
    /\ outliers = <<>>
    /\ dvals = <<>>
    /\ dpos = 0
    /\ domain_results = <<>>
    /\ response = None
    /\ exc = ""
    /\ fit_log = [model |-> 0, iso |-> 0, domain |-> 0, attempts |-> 0, failed |-> {},
                  folds |-> <<>>, groups |-> <<>>]

\* One call of analyze, the API process at rest.
Init ==
    /\ \E s \in Scenarios : CallStart(s)
    /\ server = ServerIdle
    /\ orch = OrchIdle

Next ==
    \/ ResolvePath
    \/ Load
    \/ IdentifyTarget
    \/ PreprocessStep
    \/ Validate
    \/ EvalFold
    \/ Select
    \/ DetectOutliers
    \/ DomainEnter
    \/ DomainValue
    \/ Respond

Spec == Init /\ [][Next]_vars

\* The datasets uploaded to the API process
Registry ==
    <<DatasetInfo(P_csv, Some(N_Region)),
      DatasetInfo(P_arff, None),
      DatasetInfo(P_CSV, Some(N_Team))>>

\* The API process with NRequests requests received at once, each for one of
\* the uploaded datasets or for none.
InitRun ==
    /\ CallStart(CsvOf(BaseTable(N_SPLITS)))
    /\ \E ids \in [Requests -> 0..Len(Registry)] : server = ServerStart(Registry, ids)
    /\ orch = OrchIdle

NextRun ==
    \/ \E r \in Requests : SetPath(r)
    \/ \E r \in Requests : SetDomain(r)
    \/ \E r \in Requests : BuildOrch(r)
    \/ \E r \in Requests : ReadPath(r)
    \/ \E r \in Requests : ReadDomain(r)

SpecRun == InitRun /\ [][NextRun]_vars

\* What earlier requests, or the shell that started the process, may have
\* left in os.environ
Leftovers ==
    {[DATASET_PATH |-> <<>>, DOMAIN_COLUMN |-> <<>>],
     [DATASET_PATH |-> <<P_txt>>, DOMAIN_COLUMN |-> <<N_Size>>]}

\* The API process with one worker: the requests are handled one after the
\* other, each for an uploaded dataset, for none, or for an unknown id.
InitSeq ==
    /\ CallStart(CsvOf(BaseTable(N_SPLITS)))
    /\ \E ids \in [Requests -> 0..(Len(Registry) + 1)], left \in Leftovers :
          server = [ServerStart(Registry, ids) EXCEPT !.workers = 1, !.environ = left]
    /\ orch = OrchIdle

SpecSeq == InitSeq /\ [][NextRun]_vars

\* An orchestrator run, with the dataset agent or without
InitOrch ==
    /\ CallStart(CsvOf(BaseTable(N_SPLITS)))
    /\ server = ServerIdle
    /\ \E include \in BOOLEAN : orch = OrchStart(include)

NextOrch == RunAgent

SpecOrch == InitOrch /\ [][NextOrch]_vars

\* What a call of analyze leaves behind for a comparison with the next
Outcome ==
    [response |-> response, exc |-> exc, folds |-> fit_log.folds,
     best_model_name |-> best_model_name]

\* analyze is called again on the same agent, in the same process, on the
\* same file and environment.  Every local of analyze is created anew
\* (candidate_models, kf, the encoders, the result and residual dicts: lines
\* 87-94 and 157-166); the agent keeps its name and dataset_env_var, which
\* analyze never writes.  Other code of the process may have drawn from
\* numpy's process-wide generator in between.
CallAgain ==
    /\ pc \in {"done", "raised"}
    /\ server.calls = 0
    /\ \E g \in 0..MaxRng :
          server' = [server EXCEPT !.calls = 1, !.rng = g, !.prior = <<Outcome>>]
    /\ pc' = "start"
    /\ path' = None
    /\ df' = None
    /\ target_col' = None
    /\ X' = Table(<<>>, <<>>)
    /\ y' = <<>>
    /\ domain_col_name' = None
    /\ cand' = 0
    /\ fold' = 0
    /\ rmses' = <<>>
    /\ maes' = <<>>
    /\ feature_importances' = <<>>
    /\ residuals' = <<>>
    /\ model_results' = <<>>
    /\ model_residuals' = <<>>
    /\ best_model_name' = None
    /\ top_feats' = <<>>
    /\ lower_quantile' = None
    /\ upper_quantile' = None
    /\ outliers' = <<>>
    /\ dvals' = <<>>
    /\ dpos' = 0
    /\ domain_results' = <<>>
    /\ response' = None
    /\ exc' = ""
    /\ fit_log' = [model |-> 0, iso |-> 0, domain |-> 0, attempts |-> 0, failed |-> {},
                   folds |-> <<>>, groups |-> <<>>]
    /\ UNCHANGED <<env, file, sk, orch>>

\* Two calls in a row: the number of rows and the shuffle, the domain column
\* and its groups, a fit that raises.
InitTwice ==
    /\ \E s \in ScnRows \cup ScnDomain \cup ScnFaults : CallStart(s)
    /\ server = ServerIdle
    /\ orch = OrchIdle

NextTwice ==
    \/ ResolvePath
    \/ Load
    \/ IdentifyTarget
    \/ PreprocessStep
    \/ Validate
    \/ EvalFold
    \/ Select
    \/ DetectOutliers
    \/ DomainEnter
    \/ DomainValue
    \/ Respond
    \/ CallAgain

SpecTwice == InitTwice /\ [][NextTwice]_vars

\* analyze is called again on the same file with other optional sections:
\* DOMAIN_COLUMN is unset or names another column, and the isolation forest
\* of lines 219-223 fits or raises.  What the library does in the main
\* evaluation (lines 157-216) is what it did in the first call.
CallVaried ==
    /\ pc \in {"done", "raised"}
    /\ server.calls = 0
    /\ server' = [server EXCEPT !.calls = 1, !.prior = <<Outcome>>]
    /\ \E d \in {None, Some(N_Region), Some(N_Team)} :
          env' = [env EXCEPT !.DOMAIN_COLUMN = d]
    /\ \E iso \in BOOLEAN : sk' = [sk EXCEPT !.iso = iso]
    /\ pc' = "start"
    /\ path' = None
    /\ df' = None
    /\ target_col' = None
    /\ X' = Table(<<>>, <<>>)
    /\ y' = <<>>
    /\ domain_col_name' = None
    /\ cand' = 0
    /\ fold' = 0
    /\ rmses' = <<>>
    /\ maes' = <<>>
    /\ feature_importances' = <<>>
    /\ residuals' = <<>>
    /\ model_results' = <<>>
    /\ model_residuals' = <<>>
    /\ best_model_name' = None
    /\ top_feats' = <<>>
    /\ lower_quantile' = None
    /\ upper_quantile' = None
    /\ outliers' = <<>>
    /\ dvals' = <<>>
    /\ dpos' = 0
    /\ domain_results' = <<>>
    /\ response' = None
    /\ exc' = ""
    /\ fit_log' = [model |-> 0, iso |-> 0, domain |-> 0, attempts |-> 0, failed |-> {},
                   folds |-> <<>>, groups |-> <<>>]
    /\ UNCHANGED <<file, orch>>

\* Two calls on one dataset that differ in the optional sections
InitPair ==
    /\ \E s \in ScnDomain \cup ScnDomainCells : CallStart(s)
    /\ server = ServerIdle
    /\ orch = OrchIdle

NextPair ==
    \/ ResolvePath
    \/ Load
    \/ IdentifyTarget
    \/ PreprocessStep
    \/ Validate
    \/ EvalFold
    \/ Select
    \/ DetectOutliers
    \/ DomainEnter
    \/ DomainValue
    \/ Respond
    \/ CallVaried

SpecPair == InitPair /\ [][NextPair]_vars

\* ------------------------------------------------------------- the results
Returned == pc = "done"
Raised == pc = "raised"
Result == Get(response)
IsErrorResult == Returned /\ "_error" \in DOMAIN Result
Succeeded == Returned /\ "_error" \notin DOMAIN Result
ErrorText == Result["_error"].text
LoadedOk == ~IsNone(df) /\ ~IsEmpty(Get(df))
BestIndex == CHOOSE k \in 1..NCand : Candidates[k] = Get(best_model_name)
NoFits == fit_log.model = 0 /\ fit_log.iso = 0 /\ fit_log.domain = 0
\* The names of the model's universe that contain "effort", whatever the case
EffortNames == {N_Effort, N_EFFORT_H, N_xEFfort}

\* ------------------------------------------------------------------ claims

\* C1: analyze ends by returning a result record on every input: no
\* exception leaves it.
C1_NoExceptionEscapes == ~Raised

\* C2: a call that ends in the load, schema or feature error has made no
\* candidate fit, no IsolationForest fit and no domain-group fit.
C2_FatalBeforeModeling ==
    (IsErrorResult /\ ErrorText \in {ERR_LOAD, ERR_TARGET, ERR_FEATURES}) => NoFits
C2_Witness == IsErrorResult /\ ErrorText = ERR_FEATURES /\ NoFits

\* C3, as claimed: an error result holds the error description and no other
\* key.
C3_OnlyTheErrorField == IsErrorResult => DOMAIN Result = {"_error"}
\* C3, amended: an error result holds the agent's name and the error
\* description, and none of the fields of a successful result.
C3_AgentAndErrorOnly == IsErrorResult => DOMAIN Result = {"agent", "_error"}
C3_Witness ==
    /\ IsErrorResult
    /\ ErrorText = ERR_LOAD
    /\ Result["_error"].arg = P_txt
    /\ Result["agent"] = AGENT_NAME

\* C4: a candidate whose retry raised is dropped and the call goes on: no
\* exception leaves analyze, and all_models of the result names exactly the
\* candidates whose every fit succeeded.
C4_FailedCandidateDropped ==
    /\ fit_log.failed # {} => ~Raised
    /\ Succeeded =>
          {Result.all_models[k].name : k \in 1..Len(Result.all_models)}
          = {Candidates[c] : c \in (1..NCand) \ fit_log.failed}

\* C5: a loaded table of one row or more, all cells numbers, with an effort
\* column and another column, ends in a result that is no error and whose
\* best_model is one of the five candidates.
C5_AlwaysABestModel ==
    ((Returned \/ Raised)
     /\ LoadedOk
     /\ NCols(Get(df)) >= 2
     /\ (\E i \in 1..NCols(Get(df)) : Get(df).cols[i] \in EffortNames)
     /\ (\A c \in 1..NCols(Get(df)) : \A r \in 1..NRows(Get(df)) : IsNum(Get(df).data[c][r]))
     /\ sk.fault = NoFault)
    => (Succeeded /\ Result.best_model \in Range(Candidates))

\* C6: the selected candidate has the lowest mean RMSE of model_results, and
\* of the candidates that share that minimum it is the earliest declared.
C6_LowestRmseEarliestWins ==
    ~IsNone(best_model_name) =>
        \A k \in 1..NCand :
            /\ model_results[k].rmse >= model_results[BestIndex].rmse
            /\ model_results[k].rmse = model_results[BestIndex].rmse => k >= BestIndex
C6_Witness ==
    /\ ~IsNone(best_model_name)
    /\ BestIndex = 3
    /\ model_results[5].rmse = model_results[3].rmse
    /\ model_results[1].rmse > model_results[3].rmse

\* C7: the target is the first column, in table order, whose name contains
\* "effort" in any case; the other columns, later matches included, are the
\* features; without a match the call ends in the schema error and no target.
C7_TargetIsFirstEffortColumn ==
    (LoadedOk /\ pc # "target") =>
        LET cols == Get(df).cols
            IsOther(c) == c # Get(target_col)
        IN  /\ ~IsNone(target_col) =>
                  \E i \in 1..Len(cols) :
                      /\ cols[i] = Get(target_col)
                      /\ cols[i] \in EffortNames
                      /\ \A j \in 1..(i - 1) : cols[j] \notin EffortNames
            /\ (~IsNone(target_col) /\ pc \notin {"preprocess", "raised"}) =>
                  X.cols = SelectSeq(cols, IsOther)
            /\ (\A i \in 1..Len(cols) : cols[i] \notin EffortNames) =>
                  (IsNone(target_col) /\ IsErrorResult /\ ErrorText = ERR_TARGET)
C7_Witness ==
    /\ Succeeded
    /\ Get(df).cols = <<N_Size, N_EFFORT_H, N_Effort>>
    /\ Result.target_column = N_EFFORT_H
    /\ X.cols = <<N_Size, N_Effort>>

\* C8: top_features of a result has min(5, number of features) entries, its
\* keys are distinct feature columns and never the target, each entry carries
\* the selected model's mean importance of its column, the entries are in
\* non-increasing order, and no column left out has a greater importance than
\* one kept.
C8_TopFeatures ==
    Succeeded =>
        LET tf == Result.top_features
            fi == model_results[BestIndex].feature_importances
        IN  /\ Len(tf) = Min2(5, NCols(X))
            /\ \A k \in 1..Len(tf) :
                  /\ \E j \in 1..NCols(X) : X.cols[j] = tf[k].name /\ fi[j] = tf[k].importance
                  /\ tf[k].name # Result.target_column
            /\ \A k, l \in 1..Len(tf) : k < l =>
                  (tf[k].name # tf[l].name /\ tf[k].importance >= tf[l].importance)
            /\ \A j \in 1..NCols(X) :
                  (\A k \in 1..Len(tf) : tf[k].name # X.cols[j]) =>
                      \A k \in 1..Len(tf) : tf[k].importance >= fi[j]
C8_Witness ==
    /\ Succeeded
    /\ NCols(X) = 6
    /\ Len(Result.top_features) = 5
    /\ Result.top_features[1].importance > Result.top_features[5].importance
    /\ Result.top_features[1].name # X.cols[1]

\* C9: prediction_interval is in the result exactly when the selected
\* model's pooled residuals are not empty; then lower <= upper, the width
\* is their difference, and both lie between the least and the greatest
\* residual of the selected model.
C9_PredictionInterval ==
    Succeeded =>
        LET pool == model_residuals[BestIndex]
        IN  /\ ("prediction_interval" \in DOMAIN Result) <=> (Len(pool) > 0)
            /\ "prediction_interval" \in DOMAIN Result =>
                  LET pi == Result.prediction_interval
                  IN  /\ pi.lower_residual_quantile <= pi.upper_residual_quantile
                      /\ pi.interval_width
                           = pi.upper_residual_quantile - pi.lower_residual_quantile
                      /\ \E i \in 1..Len(pool) : pool[i] * QScale <= pi.lower_residual_quantile
                      /\ \E i \in 1..Len(pool) : pool[i] * QScale >= pi.upper_residual_quantile
C9_Witness ==
    /\ Succeeded
    /\ BestIndex = 2
    /\ Result.prediction_interval.interval_width > 0
    /\ Result.prediction_interval.lower_residual_quantile < 0

\* C10: outliers, when in the result, has min(5, number of rows) entries,
\* their row_index values differ, their scores do not increase, and no row
\* left out has a score above the least score kept.
C10_Outliers ==
    (Succeeded /\ "outliers" \in DOMAIN Result) =>
        LET out == Result.outliers
            kept == {out[k].row_index : k \in 1..Len(out)}
        IN  /\ Len(out) = Min2(5, NRows(X))
            /\ Len(out) <= 5
            /\ \A k, l \in 1..Len(out) : k < l =>
                  (out[k].row_index # out[l].row_index /\ out[k].score >= out[l].score)
            /\ \A k \in 1..Len(out) :
                  /\ out[k].row_index \in 0..(NRows(X) - 1)
                  /\ out[k].score = Score(sk, out[k].row_index + 1)
            /\ \A r \in 1..NRows(X) :
                  (r - 1) \notin kept => \A k \in 1..Len(out) : Score(sk, r) <= out[k].score
C10_Witness ==
    /\ Succeeded
    /\ "outliers" \in DOMAIN Result
    /\ NRows(X) = 6
    /\ Len(Result.outliers) = 5
    /\ Result.outliers[1].score > Result.outliers[5].score
    /\ \E r \in 1..NRows(X) :
          /\ \A k \in 1..5 : Result.outliers[k].row_index # r - 1
          /\ Score(sk, r) = Result.outliers[5].score

\* The domain column the caller asked for: DOMAIN_COLUMN, when it is set, not
\* empty and names a column of the loaded table.
DomainSupplied ==
    /\ ~Falsy(env.DOMAIN_COLUMN)
    /\ LoadedOk
    /\ HasCol(Get(df), Get(env.DOMAIN_COLUMN))

\* C11, as claimed: an outlier record carries a domain label exactly when the
\* domain column was supplied, is a column of the table and is no column of
\* the feature matrix.
C11_LabelOnlyWhenNotAFeature ==
    (Succeeded /\ "outliers" \in DOMAIN Result) =>
        \A k \in 1..Len(Result.outliers) :
            ("domain" \in DOMAIN Result.outliers[k])
            <=> (DomainSupplied /\ ~HasCol(X, Get(env.DOMAIN_COLUMN)))
\* C11, amended: an outlier record carries a domain label exactly when the
\* domain column was supplied and is a column of the table, a feature of the
\* model or not; the label is the text of the row's cell in that column.
C11_LabelWheneverSupplied ==
    (Succeeded /\ "outliers" \in DOMAIN Result) =>
        \A k \in 1..Len(Result.outliers) :
            LET rec == Result.outliers[k]
            IN  /\ ("domain" \in DOMAIN rec) <=> DomainSupplied
                /\ DomainSupplied =>
                      rec["domain"]
                      = StrCell(Column(Get(df), Get(env.DOMAIN_COLUMN))[rec.row_index + 1])
C11_Witness ==
    /\ Succeeded
    /\ "outliers" \in DOMAIN Result
    /\ env.DOMAIN_COLUMN = Some(N_Region)
    /\ HasCol(X, N_Region)
    /\ \E k \in 1..Len(Result.outliers) : Result.outliers[k]["domain"] = StrCell(Txt(2))

\* The keys every successful result holds
MainKeys ==
    {"agent", "dataset_path", "target_column", "best_model", "best_model_rmse",
     "best_model_mae", "top_features", "all_models"}
\* The outlier step has run and something in its try raised
OutlierStepFailed ==
    /\ fit_log.iso > 0
    /\ \/ IsoRaises(sk, X)
       \/ RecordRaises(sk, TopIndices([r \in 1..NRows(X) |-> Score(sk, r)], sk.tie))

\* C12: when the outlier detector's fit, its scoring or the construction of
\* any outlier record raises, the outlier list is empty (never the records
\* built before the failure), the step lets no exception out and hands over
\* to the section after it, and the result then has no outliers field and
\* holds the whole main result.
C12_OutlierFailureIsAbsorbed ==
    OutlierStepFailed =>
        /\ outliers = <<>>
        /\ dpos = 0 => (pc = "domain" /\ exc = "")
        /\ Returned =>
              /\ Succeeded
              /\ "outliers" \notin DOMAIN Result
              /\ MainKeys \subseteq DOMAIN Result
              /\ Result.best_model = Get(best_model_name)
              /\ Result.all_models = AllModels(model_results)
C12_Witness ==
    /\ Succeeded
    /\ sk.iso
    /\ sk.rec = 3
    /\ OutlierStepFailed
    /\ "outliers" \notin DOMAIN Result
    /\ Len(Result.all_models) = NCand

\* The number of rows of the table whose domain cell reads as the key
RowsOfKey(key) ==
    Cardinality({r \in 1..NRows(Get(df)) :
                    StrCell(Column(Get(df), Get(domain_col_name))[r]) = key})

\* C13: every entry of domain_specific_models is for a domain value held by
\* five rows or more of the table and records that number as its count; a
\* value held by fewer rows gets no entry, and the loop over the values lets
\* no exception out of analyze.
C13_DomainGroupsOfFiveOrMore ==
    /\ \A k \in 1..Len(domain_results) :
          /\ RowsOfKey(domain_results[k].key) >= 5
          /\ domain_results[k].count = RowsOfKey(domain_results[k].key)
    /\ (Succeeded /\ "domain_specific_models" \in DOMAIN Result) =>
          Result.domain_specific_models = domain_results
    /\ Raised => dpos <= 1
C13_Witness ==
    /\ Succeeded
    /\ "domain_specific_models" \in DOMAIN Result
    /\ Len(Result.domain_specific_models) = 1
    /\ Result.domain_specific_models[1].key = StrCell(Txt(1))
    /\ Result.domain_specific_models[1].count = 5
    /\ RowsOfKey(StrCell(Txt(2))) = 3

\* C14: when DOMAIN_COLUMN is unset, empty or names no column of the table,
\* the domain column is None; a call that has selected its best model lets
\* no exception out, no domain value is enumerated and no domain group is
\* fitted, and a result has no domain_specific_models and no outlier record
\* with a domain field.
C14_NoDomainWithoutColumn ==
    (~DomainSupplied /\ pc \notin {"start", "load", "target", "preprocess", "validate"}) =>
        /\ IsNone(domain_col_name)
        /\ dvals = <<>>
        /\ domain_results = <<>>
        /\ fit_log.domain = 0
        /\ ~IsNone(best_model_name) => ~Raised
        /\ Succeeded =>
              /\ "domain_specific_models" \notin DOMAIN Result
              /\ "outliers" \in DOMAIN Result =>
                    \A k \in 1..Len(Result.outliers) :
                        "domain" \notin DOMAIN Result.outliers[k]
C14_Witness ==
    /\ Succeeded
    /\ env.DOMAIN_COLUMN = Some(N_Team)
    /\ ~HasCol(Get(df), N_Team)
    /\ HasCol(Get(df), N_Region)
    /\ NRows(Get(df)) >= 2 * MIN_GROUP
    /\ "outliers" \in DOMAIN Result
    /\ "domain_specific_models" \notin DOMAIN Result

\* The entry analyze records for the domain value at position p when nothing
\* raises while that value is processed
DomainEntry(p) ==
    LET rows == GroupRows(Get(df), Get(domain_col_name), dvals[p])
        sub == SubResults([sk EXCEPT !.dfault = 0], rows)
        b == SelectBest(sub)
    IN  [key |-> StrCell(dvals[p]),
         best_model |-> sub[b].name,
         best_rmse |-> sub[b].rmse,
         best_mae |-> sub[b].mae,
         all_models |-> sub,
         count |-> Len(rows)]
\* Something raises while the domain value at position p is processed
DomainValueFails(p) ==
    LET rows == GroupRows(Get(df), Get(domain_col_name), dvals[p])
        Xs == SubFeatures(Get(df), rows, Get(target_col), Get(domain_col_name))
    IN  \/ sk.dfault = p
        \/ NCols(Xs) = 0
        \/ TableHasNaN(Xs)
        \/ \E i \in 1..Len(rows) : IsNaN(y[rows[i]])
\* The positions, of those the loop has passed, whose value has five rows or
\* more and did not fail
DomainKept ==
    {p \in 1..Min2(dpos - 1, Len(dvals)) :
        /\ Len(GroupRows(Get(df), Get(domain_col_name), dvals[p])) >= 5
        /\ ~DomainValueFails(p)}

\* C15: a failure while one domain value is processed costs that value its
\* entry and nothing else: the loop goes on, and the entries recorded so far
\* are, in the order of the values, the entries of every value of five rows or
\* more that did not fail, each as it is computed without any failure.
C15_DomainFailureSkipsOneValue ==
    (~IsNone(domain_col_name) /\ pc \in {"dloop", "done"} /\ dpos >= 1) =>
        /\ Len(domain_results) = Cardinality(DomainKept)
        /\ \A k \in 1..Len(domain_results) :
              domain_results[k] = DomainEntry(SetToSeq(DomainKept)[k])
        /\ Returned => (Succeeded /\ dpos = Len(dvals) + 1)
C15_Witness ==
    /\ Succeeded
    /\ sk.dfault = 1
    /\ Len(dvals) = 2
    /\ DomainKept = {2}
    /\ DomainValueFails(1)
    /\ Result.domain_specific_models = <<DomainEntry(2)>>

\* C16: once the main result is computed, nothing in the outlier detection or
\* in the domain calibration, the enumeration and ordering of the domain
\* values included, lets an exception out of analyze.
C16_OptionalSectionsNeverAbort == ~(Raised /\ ~IsNone(best_model_name))

Preprocessed ==
    /\ pc \notin {"start", "load", "target", "preprocess"}
    /\ ~IsNone(target_col)
    /\ ~AstypeFloatRaises(Column(Get(df), Get(target_col)))

\* C18: the feature matrix _preprocess returns has no missing value and no
\* cell that is not a number, whatever the columns of the table hold.
C18_FeaturesCompleteAndNumeric ==
    Preprocessed =>
        \A c \in 1..NCols(X) : \A r \in 1..NRows(X) : IsNum(X.data[c][r])

\* The feature columns of the table that hold text, by their position in X
ObjectColumns == {c \in 1..NCols(X) : IsObject(Column(Get(df), X.cols[c]))}
\* The position in the column of the first cell equal to the cell of row i
FirstSeen(cells, i) == CHOOSE j \in 1..i : cells[j] = cells[i] /\ \A l \in 1..(j - 1) : cells[l] # cells[i]

\* C19, as claimed: the code of a value is the number of distinct values met
\* before it in row order.
C19_CodesInFirstSeenOrder ==
    Preprocessed =>
        \A c \in ObjectColumns :
            LET raw == Column(Get(df), X.cols[c])
            IN  \A i \in 1..Len(raw) :
                    X.data[c][i]
                    = Num(Cardinality({FirstSeen(raw, l) :
                                         l \in {m \in 1..Len(raw) :
                                                   FirstSeen(raw, m) < FirstSeen(raw, i)}}))
\* C19, amended: each text column is encoded on its own; equal values get
\* equal codes and distinct values distinct codes, the codes are exactly
\* 0..k-1 for k distinct values, and they follow the sorted order of the
\* values: of two texts (or two numbers) the lesser has the lesser code.
C19_CodesInSortedOrder ==
    Preprocessed =>
        \A c \in ObjectColumns :
            LET raw == Column(Get(df), X.cols[c])
                code(i) == X.data[c][i]
                k == Cardinality(Range(raw))
            IN  /\ \A i, j \in 1..Len(raw) : (raw[i] = raw[j]) <=> (code(i) = code(j))
                /\ {code(i) : i \in 1..Len(raw)} = {Num(v) : v \in 0..(k - 1)}
                /\ \A i, j \in 1..Len(raw) :
                      (raw[i][1] = raw[j][1] /\ raw[i][2] < raw[j][2]) => code(i)[2] < code(j)[2]
C19_Witness ==
    /\ Preprocessed
    /\ ObjectColumns = {1}
    /\ Column(Get(df), N_Team)[1] = Txt(2)
    /\ Column(Get(df), N_Team)[2] = Txt(1)
    /\ X.data[1][1] = Num(1)
    /\ X.data[1][2] = Num(0)

\* The paths of the model's universe whose extension is .csv or .arff in
\* some case
SupportedPaths == {P_csv, P_CSV, P_arff}

\* C20: once the load step has run, the call has not raised; a path whose
\* extension is neither .csv nor .arff in any case, or a file whose parsing
\* raises, gives no table at all, and otherwise the table of the file is
\* loaded whole; without a table, or with an empty one, analyze returns the
\* load error for that path and goes no further.
C20_LoadFailureIsTheLoadError ==
    (~IsNone(path) /\ ~Falsy(path) /\ pc # "load") =>
        LET bad == Get(path) \notin SupportedPaths \/ file.kind # "table"
        IN  /\ bad => IsNone(df)
            /\ ~bad => df = Some(file.table)
            /\ (bad \/ NRows(file.table) = 0 \/ NCols(file.table) = 0) =>
                  /\ IsErrorResult
                  /\ ErrorText = ERR_LOAD
                  /\ Result["_error"].arg = Get(path)
                  /\ IsNone(target_col)
                  /\ NoFits
            /\ (IsErrorResult /\ ErrorText = ERR_LOAD) =>
                  (bad \/ NRows(file.table) = 0 \/ NCols(file.table) = 0)
C20_Witness ==
    /\ IsErrorResult
    /\ ErrorText = ERR_LOAD
    /\ Get(path) = P_CSV
    /\ file = FILE_CORRUPT
    /\ IsNone(df)

ReportedMetrics ==
    {Result.best_model_rmse, Result.best_model_mae}
    \cup UNION {{Result.all_models[k].rmse, Result.all_models[k].mae} :
                   k \in 1..Len(Result.all_models)}
    \cup (IF "domain_specific_models" \in DOMAIN Result
          THEN UNION {{Result.domain_specific_models[k].best_rmse,
                       Result.domain_specific_models[k].best_mae}
                      \cup UNION {{Result.domain_specific_models[k].all_models[c].rmse,
                                   Result.domain_specific_models[k].all_models[c].mae} :
                                     c \in 1..Len(Result.domain_specific_models[k].all_models)} :
                         k \in 1..Len(Result.domain_specific_models)}
          ELSE {})

\* C22: every RMSE and MAE of a result is >= 0.
C22_MetricsNotNegative == Succeeded => \A v \in ReportedMetrics : v >= 0
C22_Witness ==
    /\ Succeeded
    /\ "domain_specific_models" \in DOMAIN Result
    /\ Result.best_model_mae > 0
    /\ Result.domain_specific_models[1].best_mae > 0
    /\ \E r \in 1..NRows(X) : Residual(sk, BestIndex, r) < 0

\* C23: in an orchestrator run that includes the dataset agent, the entry of
\* dataset_ml comes from a call of analyze and no prompt of that agent goes
\* to the language model.
C23_DatasetAgentRunsLocally ==
    /\ \A k \in 1..Len(orch.prompts) : orch.prompts[k].agent # DATASET_AGENT
    /\ \A k \in 1..Len(orch.results) :
          orch.results[k].key = DATASET_AGENT =>
              (orch.results[k].by = "analyze" /\ orch.analyze_calls = 1)

\* What os.environ holds for the dataset of request r
ConfigOf(r) ==
    IF AsksDataset(r)
    THEN [DATASET_PATH |-> <<DatasetOf(r).path>>, DOMAIN_COLUMN |-> DatasetOf(r).domain_column]
    ELSE [DATASET_PATH |-> <<>>, DOMAIN_COLUMN |-> <<>>]

\* C24: with the requests handled one after the other, from the moment the
\* orchestrator of a request is built to the end of its run os.environ holds
\* the configuration of that request and nothing of an earlier one: the path
\* and the domain column of its dataset (unset when it has none), or neither
\* variable for a request without dataset, whose orchestrator has no dataset
\* agent; a request for an unknown dataset builds no orchestrator.
C24_EnvironmentIsTheRequests ==
    \A r \in Requests :
        /\ server.at[r] \in {"orch", "read_path", "read_domain"} =>
              /\ server.environ = ConfigOf(r)
              /\ server.include[r] <=> AsksDataset(r)
              /\ AsksDataset(r) => KnownDataset(r)
        /\ server.used[r].reads >= 1 =>
              (AsksDataset(r) /\ server.used[r].path = ConfigOf(r).DATASET_PATH)
        /\ server.used[r].reads = 2 => server.used[r].domain = ConfigOf(r).DOMAIN_COLUMN
C24_Witness ==
    /\ server.workers = 1
    /\ server.req = <<1, 2>>
    /\ server.at = <<"done", "orch">>
    /\ server.used[1].domain = <<N_Region>>
    /\ server.environ = [DATASET_PATH |-> <<P_arff>>, DOMAIN_COLUMN |-> <<>>]

\* C25: the five (train, test) pairs of a candidate partition the rows: in
\* each pair the two index lists have no row in common, no row twice, and
\* hold all n rows between them; every row is in the test list of exactly one
\* pair; and the pooled residuals of each candidate evaluated are n in
\* number, the residuals of the test rows of fold 1, then of fold 2, and so on.
C25_FoldsPartitionTheRows ==
    Len(fit_log.folds) = N_SPLITS =>
        LET n == NRows(X)
            F == fit_log.folds
            offset(f) == SumSeq([g \in 1..(f - 1) |-> Len(F[g].test)])
        IN  /\ n >= 5
            /\ \A f \in 1..N_SPLITS :
                  /\ Range(F[f].train) \cap Range(F[f].test) = {}
                  /\ Range(F[f].train) \cup Range(F[f].test) = 1..n
                  /\ Len(F[f].train) + Len(F[f].test) = n
                  /\ Len(F[f].test) >= 1
            /\ \A r \in 1..n : Cardinality({f \in 1..N_SPLITS : r \in Range(F[f].test)}) = 1
            /\ \A c \in 1..Len(model_residuals) :
                  /\ Len(model_residuals[c]) = n
                  /\ \A f \in 1..N_SPLITS : \A i \in 1..Len(F[f].test) :
                        model_residuals[c][offset(f) + i] = Residual(sk, c, F[f].test[i])
C25_Witness ==
    /\ Succeeded
    /\ NRows(X) = 6
    /\ sk.shuffle = 1
    /\ Len(fit_log.folds) = N_SPLITS
    /\ Len(fit_log.folds[1].test) = 2
    /\ Len(fit_log.folds[5].test) = 1
    /\ Len(model_residuals) = NCand
    /\ Len(model_residuals[NCand]) = 6

\* C26: in a result, best_model names exactly one entry of all_models,
\* best_model_rmse and best_model_mae are the rmse and mae of that entry,
\* and no entry of all_models has a lower rmse.
C26_BestModelIsInAllModels ==
    Succeeded =>
        LET am == Result.all_models
            hits == {k \in 1..Len(am) : am[k].name = Result.best_model}
        IN  /\ Cardinality(hits) = 1
            /\ \A k \in hits :
                  /\ Result.best_model_rmse = am[k].rmse
                  /\ Result.best_model_mae = am[k].mae
            /\ \A k \in 1..Len(am) : Result.best_model_rmse <= am[k].rmse
C26_Witness ==
    /\ Succeeded
    /\ Result.best_model = Candidates[3]
    /\ Result.all_models[1].rmse > Result.best_model_rmse
    /\ Result.all_models[1].mae > Result.best_model_mae
    /\ Result.all_models[3].rmse = Result.best_model_rmse

\* The group the domain loop cross-validated under the key
GroupOfKey(key) ==
    fit_log.groups[CHOOSE g \in 1..Len(fit_log.groups) : fit_log.groups[g].key = key]

\* C27: every entry of domain_specific_models is consistent with itself and
\* is of its own rows: best_model names one entry of its all_models and
\* best_rmse, best_mae are that entry's; no entry has a lower rmse and no
\* earlier candidate an equal one; all_models lists the five candidates; the
\* rows fitted are those holding the value, and the domain column is not
\* among the features fitted.
C27_DomainEntryConsistent ==
    \A j \in 1..Len(domain_results) :
        LET e == domain_results[j]
            am == e.all_models
            hits == {k \in 1..Len(am) : am[k].name = e.best_model}
        IN  /\ Cardinality(hits) = 1
            /\ \A k \in hits :
                  /\ e.best_rmse = am[k].rmse
                  /\ e.best_mae = am[k].mae
                  /\ \A i \in 1..Len(am) : am[k].rmse <= am[i].rmse
                  /\ \A i \in 1..(k - 1) : am[k].rmse < am[i].rmse
            /\ [k \in 1..Len(am) |-> am[k].name] = Candidates
            /\ \E g \in 1..Len(fit_log.groups) : fit_log.groups[g].key = e.key
            /\ LET grp == GroupOfKey(e.key)
               IN  /\ \A c \in 1..Len(grp.cols) : grp.cols[c] # Get(domain_col_name)
                   /\ Len(grp.cols) >= 1
                   /\ Len(grp.rows) = e.count
                   /\ \A r \in 1..NRows(Get(df)) :
                         (\E i \in 1..Len(grp.rows) : grp.rows[i] = r)
                         <=> StrCell(Column(Get(df), Get(domain_col_name))[r]) = e.key
C27_Witness ==
    /\ Succeeded
    /\ Len(domain_results) = 2
    /\ domain_results[2].best_model = Candidates[3]
    /\ domain_results[2].all_models[1].rmse > domain_results[2].best_rmse
    /\ HasCol(X, Get(domain_col_name))
    /\ Len(GroupOfKey(domain_results[2].key).cols) = NCols(X) - 1

\* C29: every group the domain loop cross-validates is split into
\* min(3, rows of its feature matrix) folds; a group that gets that far has
\* five rows or more, so the number of folds is 3 and no group of two rows
\* or fewer reaches the split.
C29_DomainFoldsAreThree ==
    \A g \in 1..Len(fit_log.groups) :
        LET grp == fit_log.groups[g]
        IN  /\ grp.n_splits = Min2(3, Len(grp.rows))
            /\ grp.n_splits = 3
            /\ Len(grp.rows) >= 5
            /\ Len(grp.rows) > 2
C29_Witness ==
    /\ pc = "dloop"
    /\ dpos > Len(dvals)
    /\ \E g \in 1..Len(fit_log.groups) : Len(fit_log.groups[g].rows) = 5
    /\ \E p \in 1..Len(dvals) :
          /\ Len(GroupRows(Get(df), Get(domain_col_name), dvals[p])) \in 1..2
          /\ \A g \in 1..Len(fit_log.groups) :
                fit_log.groups[g].key # StrCell(dvals[p])

\* The fields of a result that the main evaluation decides
MainFields ==
    MainKeys \cup {"prediction_interval", "_error"}
\* What a call left of them: nothing when it raised
MainValues(resp) ==
    IF IsNone(resp) THEN <<>>
    ELSE [k \in MainFields \cap DOMAIN Get(resp) |-> Get(resp)[k]]

\* C28: for one dataset, target_column, best_model, best_model_rmse,
\* best_model_mae, top_features, all_models and prediction_interval of the
\* result are the same whether or not a domain column is supplied, whether or
\* not the domain calibration fits the candidates again, and whether the
\* outlier detection succeeds or fails.
C28_MainResultUnaffected ==
    (server.calls = 1 /\ pc \in {"done", "raised"}) =>
        /\ Returned <=> ~IsNone(server.prior[1].response)
        /\ MainValues(response) = MainValues(server.prior[1].response)
\* The same of two calls that both return
MainValuesAgreeWhenBothReturn ==
    (server.calls = 1 /\ Returned /\ ~IsNone(server.prior[1].response)) =>
        MainValues(response) = MainValues(server.prior[1].response)
\* Two calls that return, the first with domain entries and outliers, the
\* second with neither
BothReturnAndDiffer ==
    /\ server.calls = 1
    /\ Succeeded
    /\ ~IsNone(server.prior[1].response)
    /\ "domain_specific_models" \in DOMAIN server.prior[1].response[1]
    /\ "outliers" \in DOMAIN server.prior[1].response[1]
    /\ "domain_specific_models" \notin DOMAIN Result
    /\ "outliers" \notin DOMAIN Result
    /\ "prediction_interval" \in DOMAIN Result

\* The first of the four fatal conditions that the inputs meet, in the order
\* configuration, load, schema, features; "" when they meet none
FirstFatal ==
    IF Falsy(Getenv(env, DATASET_ENV_VAR)) THEN ERR_ENV
    ELSE LET d == LoadDataset(Get(Getenv(env, DATASET_ENV_VAR)), file)
         IN  IF IsNone(d) \/ IsEmpty(Get(d)) THEN ERR_LOAD
             ELSE IF IsNone(FindTarget(Get(d).cols)) THEN ERR_TARGET
             ELSE IF NCols(Get(d)) = 1 THEN ERR_FEATURES
             ELSE ""
\* How far analyze had got when it returned the error
FatalReportedInOrder ==
    /\ ErrorText = ERR_ENV => IsNone(df)
    /\ ErrorText = ERR_LOAD => IsNone(target_col)
    /\ ErrorText = ERR_TARGET => (NCols(X) = 0 /\ Len(y) = 0)
    /\ ErrorText = ERR_FEATURES =>
          /\ LoadedOk
          /\ ~IsNone(target_col)
          /\ Get(df).cols = <<Get(target_col)>>

\* C30: analyze ends with the error of the first fatal condition its inputs
\* meet, in the order configuration, load, schema, features, and with no
\* other: a missing path before the file is read, a load failure before a
\* column is looked at, a missing effort column before the features are
\* counted, and the features error for a loaded, non-empty table of the
\* target column alone.
C30_FirstFatalIsReported ==
    pc \in {"done", "raised"} =>
        /\ FirstFatal # "" => (IsErrorResult /\ ErrorText = FirstFatal)
        /\ IsErrorResult => (ErrorText = FirstFatal /\ FatalReportedInOrder)
\* The same of the calls that return
FatalOrderWhenReturned ==
    Returned =>
        /\ FirstFatal # "" => (IsErrorResult /\ ErrorText = FirstFatal)
        /\ IsErrorResult => (ErrorText = FirstFatal /\ FatalReportedInOrder)
\* A table of the target alone whose cells are text
TargetOnlyRaises ==
    /\ Raised
    /\ exc = "ValueError"
    /\ FirstFatal = ERR_FEATURES
====
